---- MODULE Spec2Model ----
(***************************************************************************)
(* Model of the Wordle leaderboard server (wordle-leaderboard-server):     *)
(* the in-memory LeaderboardService (services/leaderboard_service.py), the *)
(* Score and LeaderboardEntry records (models.py), and the HTTP handlers   *)
(* (api/leaderboard.py).                                                   *)
(*                                                                         *)
(* Spec     : the service called one call at a time (each call atomic).    *)
(* HttpSpec : the HTTP handlers, one request at a time.                    *)
(* ConcSpec : calls of several request threads interleaved step by step.   *)
(***************************************************************************)
EXTENDS Integers, Sequences, FiniteSets, TLC

\* ------------------------------------------------------------------------
\* Bounds and input sets
\* ------------------------------------------------------------------------

\* Number of Score objects ever constructed in one behaviour.
MaxScores == 2

\* Python's None, as a value of the model's string-typed arguments.
None == "<None>"

\* Arguments the calls are made with.
Guesses == {0, 1, 6, 7}
Times == {-1, 0}
Dates == {"2026-02-02", "2026-02-03"}
Usernames == {None, ""}
Limits == -1 .. (MaxScores + 1)
ClearArgs == Dates \cup {None, ""}

\* Request threads running calls at the same time.
NumThreads == 2

Threads == 1 .. NumThreads

\* Arguments the interleaved calls are made with.
ConcGuesses == {1, 6, 7}
ConcTimes == {0}
ConcLimits == {1}

\* Number of scores posted through the HTTP endpoint in one behaviour.
MaxPosted == 11

\* What the HTTP requests carry.  A date travels as its characters.
Chars20260202 == <<"2", "0", "2", "6", "-", "0", "2", "-", "0", "2">>
CharsNoDashes == <<"2", "0", "2", "6", "0", "2", "0", "2", "0", "0">>
CharsToday == <<"t", "o", "d", "a", "y">>
HttpBodies ==
    { [guesses |-> 3, time_seconds |-> 0, puzzle_date |-> Chars20260202],
      [guesses |-> 7, time_seconds |-> 0, puzzle_date |-> Chars20260202],
      [guesses |-> 3, time_seconds |-> -1, puzzle_date |-> Chars20260202],
      [guesses |-> 3, time_seconds |-> 0, puzzle_date |-> CharsToday],
      [guesses |-> 3, time_seconds |-> 0],
      [k \in {} |-> 0] }
HttpPaths == {Chars20260202, CharsNoDashes, CharsToday}
HttpLimitArgs == {<<>>, <<0>>, <<1>>, <<10>>, <<11>>}

\* Indices random.choice may draw from the two word lists.
AdjectiveDraws == {1, 25}
NounDraws == {25}

\* ------------------------------------------------------------------------
\* Username generation data
\* ------------------------------------------------------------------------

ADJECTIVES ==
    << "Swift", "Brave", "Clever", "Mighty", "Noble",
       "Bold", "Quick", "Sharp", "Bright", "Keen",
       "Agile", "Fierce", "Lucky", "Calm", "Wise",
       "Golden", "Silver", "Cosmic", "Epic", "Grand",
       "Royal", "Mystic", "Ancient", "Stellar", "Thunder" >>

NOUNS ==
    << "Falcon", "Otter", "Wolf", "Eagle", "Bear",
       "Tiger", "Lion", "Hawk", "Fox", "Deer",
       "Panda", "Koala", "Shark", "Dragon", "Phoenix",
       "Mustang", "Aggie", "Knight", "Warrior", "Champion",
       "Legend", "Pioneer", "Voyager", "Ranger", "Scout" >>

\* The marker glyph of guesses_display (one green block per guess).
BLOCK == "#"

\* ------------------------------------------------------------------------
\* Helpers
\* ------------------------------------------------------------------------

Range(s) == {s[i] : i \in 1 .. Len(s)}

Min(a, b) == IF a <= b THEN a ELSE b

Max(a, b) == IF a >= b THEN a ELSE b

\* ------------------------------------------------------------------------
\* State
\* ------------------------------------------------------------------------

VARIABLES
    scores,     \* self._scores: puzzle_date -> list of Score (a function on the keys present)
    nextId,     \* number of Score ids handed out so far (uuid4 never repeats)
    op,         \* the last call made on the service, with its arguments
    result,     \* what that call returned or raised
    prev,       \* self._scores as it was when that call began
    threads,    \* per request thread: where it is in its call, and its locals
    orphans,    \* lists no longer in self._scores that some thread still refers to
    hist        \* the Score objects returned so far, and whether a clear has run

seqvars == <<op, result, prev>>

concvars == <<threads, orphans, hist>>

vars == <<scores, nextId, op, result, prev, threads, orphans, hist>>

\* ------------------------------------------------------------------------
\* models.py
\* ------------------------------------------------------------------------

Score(username, guesses, time_seconds, puzzle_date, id) ==
    [username |-> username, guesses |-> guesses, time_seconds |-> time_seconds,
     puzzle_date |-> puzzle_date, id |-> id]

LeaderboardEntry(rank, username, guesses, guesses_display, time_seconds) ==
    [rank |-> rank, username |-> username, guesses |-> guesses,
     guesses_display |-> guesses_display, time_seconds |-> time_seconds]

\* ------------------------------------------------------------------------
\* LeaderboardService: pure parts
\* ------------------------------------------------------------------------

\* random.choice(ADJECTIVES), random.choice(NOUNS), f"{adjective}{noun}"
generate_username(a, n) == ADJECTIVES[a] \o NOUNS[n]

\* if not 1 <= guesses <= 6: raise ValueError
ValidGuesses_acceptsZero(guesses) == guesses <= 6

ValidGuesses(guesses) == 1 <= guesses /\ guesses <= 6

\* if username is None: username = self.generate_username()
EffectiveUsername(username, a, n) ==
    IF username = None THEN generate_username(a, n) ELSE username

\* "X" * guesses
RECURSIVE Repeat(_, _)
Repeat(s, n) == IF n <= 0 THEN "" ELSE s \o Repeat(s, n - 1)

_format_guesses_emoji(guesses) == Repeat(BLOCK, guesses)

\* key=lambda s: (s.guesses, s.time_seconds), compared as tuples
KeyLess_guessesOnly(x, y) == x.guesses < y.guesses

KeyLess(x, y) ==
    \/ x.guesses < y.guesses
    \/ x.guesses = y.guesses /\ x.time_seconds < y.time_seconds

\* One insertion of the stable sort: x goes after every element that does
\* not compare greater than it.
RECURSIVE Insert_beforeEqual(_, _)
Insert_beforeEqual(x, s) ==
    IF s = <<>> THEN <<x>>
    ELSE IF ~KeyLess(Head(s), x) THEN <<x>> \o s
    ELSE <<Head(s)>> \o Insert_beforeEqual(x, Tail(s))

RECURSIVE Insert(_, _)
Insert(x, s) ==
    IF s = <<>> THEN <<x>>
    ELSE IF KeyLess(x, Head(s)) THEN <<x>> \o s
    ELSE <<Head(s)>> \o Insert(x, Tail(s))

\* sorted(scores, key=...): a new list, stable
RECURSIVE sorted(_)
sorted(s) ==
    IF s = <<>> THEN <<>>
    ELSE Insert(s[Len(s)], sorted(SubSeq(s, 1, Len(s) - 1)))

\* sorted_scores[:limit], a negative limit counting from the end
SliceTo_oneMore(s, limit) ==
    IF limit >= 0 THEN SubSeq(s, 1, Min(limit + 1, Len(s)))
    ELSE SubSeq(s, 1, Max(Len(s) + limit, 0))

SliceTo(s, limit) ==
    IF limit >= 0 THEN SubSeq(s, 1, Min(limit, Len(s)))
    ELSE SubSeq(s, 1, Max(Len(s) + limit, 0))

\* for rank, score in enumerate(top_scores, start=1): entries.append(...)
Entries_rankFromZero(top_scores) ==
    [i \in 1 .. Len(top_scores) |->
        LeaderboardEntry(i - 1, top_scores[i].username, top_scores[i].guesses,
                         _format_guesses_emoji(top_scores[i].guesses),
                         top_scores[i].time_seconds)]

Entries(top_scores) ==
    [i \in 1 .. Len(top_scores) |->
        LeaderboardEntry(i, top_scores[i].username, top_scores[i].guesses,
                         _format_guesses_emoji(top_scores[i].guesses),
                         top_scores[i].time_seconds)]

\* self._scores.get(puzzle_date, [])
ScoresGet(sc, puzzle_date) ==
    IF puzzle_date \in DOMAIN sc THEN sc[puzzle_date] ELSE <<>>

get_leaderboard(sc, puzzle_date, limit) ==
    Entries(SliceTo(sorted(ScoresGet(sc, puzzle_date)), limit))

\* if puzzle_date not in self._scores: self._scores[puzzle_date] = []
\* self._scores[puzzle_date].append(score)
StoreScore_prepend(sc, score) ==
    LET d == score.puzzle_date
        old == IF d \in DOMAIN sc THEN sc[d] ELSE <<>>
    IN  [k \in DOMAIN sc \cup {d} |-> IF k = d THEN <<score>> \o old ELSE sc[k]]

StoreScore(sc, score) ==
    LET d == score.puzzle_date
        old == IF d \in DOMAIN sc THEN sc[d] ELSE <<>>
    IN  [k \in DOMAIN sc \cup {d} |-> IF k = d THEN Append(old, score) ELSE sc[k]]

\* if puzzle_date: self._scores.pop(puzzle_date, None)  else: self._scores.clear()
Truthy(s) == s # None /\ s # ""

clear_scores_clearsAll(sc, puzzle_date) == [k \in {} |-> <<>>]

clear_scores(sc, puzzle_date) ==
    IF Truthy(puzzle_date)
    THEN [k \in DOMAIN sc \ {puzzle_date} |-> sc[k]]
    ELSE [k \in {} |-> <<>>]

\* list(self._scores.keys()), as the set of its elements
get_all_dates(sc) == DOMAIN sc

\* ------------------------------------------------------------------------
\* The calls, one at a time
\* ------------------------------------------------------------------------

NoOp == [name |-> "init"]

NoScore == Score("", 0, 0, "", 0)

NoRef == [kind |-> "none"]

IdleThread ==
    [pc |-> "idle", call |-> NoOp, score |-> NoScore, ref |-> NoRef,
     out |-> [kind |-> "none"]]

Init ==
    /\ scores = [k \in {} |-> <<>>]
    /\ nextId = 0
    /\ op = NoOp
    /\ result = [kind |-> "none"]
    /\ prev = [k \in {} |-> <<>>]
    /\ threads = [t \in Threads |-> IdleThread]
    /\ orphans = {}
    /\ hist = [returned |-> {}, cleared |-> FALSE]

SubmitScore ==
    \E guesses \in Guesses, time_seconds \in Times, puzzle_date \in Dates,
       username \in Usernames, a \in AdjectiveDraws, n \in NounDraws :
        /\ username # None => (a = 1 /\ n = 25)     \* no draw is made
        /\ op' = [name |-> "submit_score", guesses |-> guesses,
                  time_seconds |-> time_seconds, puzzle_date |-> puzzle_date,
                  username |-> username]
        /\ prev' = scores
        /\ IF ~ValidGuesses(guesses)
           THEN /\ result' = [kind |-> "raise", exc |-> "ValueError"]
                /\ UNCHANGED <<scores, nextId>>
           ELSE /\ nextId < MaxScores
                /\ LET score == Score(EffectiveUsername(username, a, n), guesses,
                                      time_seconds, puzzle_date, nextId + 1)
                   IN  /\ scores' = StoreScore(scores, score)
                       /\ result' = [kind |-> "score", value |-> score]
                /\ nextId' = nextId + 1
        /\ UNCHANGED concvars

\* The same call, had line 194 been self._scores.setdefault(puzzle_date, []).
GetLeaderboard_setdefault ==
    \E puzzle_date \in Dates, limit \in Limits :
        /\ op' = [name |-> "get_leaderboard", puzzle_date |-> puzzle_date,
                  limit |-> limit]
        /\ prev' = scores
        /\ result' = [kind |-> "entries",
                      value |-> get_leaderboard(scores, puzzle_date, limit)]
        /\ scores' = [k \in DOMAIN scores \cup {puzzle_date} |->
                         ScoresGet(scores, k)]
        /\ UNCHANGED nextId
        /\ UNCHANGED concvars

GetLeaderboard ==
    \E puzzle_date \in Dates, limit \in Limits :
        /\ op' = [name |-> "get_leaderboard", puzzle_date |-> puzzle_date,
                  limit |-> limit]
        /\ prev' = scores
        /\ result' = [kind |-> "entries",
                      value |-> get_leaderboard(scores, puzzle_date, limit)]
        /\ UNCHANGED <<scores, nextId>>
        /\ UNCHANGED concvars

GetAllDates ==
    /\ op' = [name |-> "get_all_dates"]
    /\ prev' = scores
    /\ result' = [kind |-> "dates", value |-> get_all_dates(scores)]
    /\ UNCHANGED <<scores, nextId>>
    /\ UNCHANGED concvars

ClearScores ==
    \E puzzle_date \in ClearArgs :
        /\ op' = [name |-> "clear_scores", puzzle_date |-> puzzle_date]
        /\ prev' = scores
        /\ scores' = clear_scores(scores, puzzle_date)
        /\ result' = [kind |-> "none"]
        /\ UNCHANGED nextId
        /\ UNCHANGED concvars

Next == SubmitScore \/ GetLeaderboard \/ GetAllDates \/ ClearScores

Spec == Init /\ [][Next]_vars

\* ------------------------------------------------------------------------
\* api/leaderboard.py: the HTTP handlers, one request at a time (HttpSpec)
\* ------------------------------------------------------------------------

\* The string made of the characters cs.
RECURSIVE Join(_)
Join(cs) == IF cs = <<>> THEN "" ELSE Head(cs) \o Join(Tail(cs))

BadRequest(error) ==
    [kind |-> "response", status |-> 400, success |-> FALSE, error |-> error]

\* required_fields, missing_fields
MissingFields(data) ==
    {"guesses", "time_seconds", "puzzle_date"} \ DOMAIN data

\* POST /api/leaderboard/score
HttpSubmitScore ==
    \E data \in HttpBodies, a \in AdjectiveDraws, n \in NounDraws :
        /\ op' = [name |-> "http_submit_score", data |-> data]
        /\ prev' = scores
        /\ IF DOMAIN data = {}
           THEN /\ result' = BadRequest("Request body must be JSON")
                /\ UNCHANGED <<scores, nextId>>
           ELSE IF MissingFields(data) # {}
           THEN /\ result' = BadRequest("Missing required fields")
                /\ UNCHANGED <<scores, nextId>>
           ELSE IF ~(1 <= data.guesses /\ data.guesses <= 6)
           THEN /\ result' = BadRequest("guesses must be an integer between 1 and 6")
                /\ UNCHANGED <<scores, nextId>>
           ELSE IF data.time_seconds < 0
           THEN /\ result' = BadRequest("time_seconds must be a non-negative integer")
                /\ UNCHANGED <<scores, nextId>>
           ELSE IF Len(data.puzzle_date) # 10
           THEN /\ result' = BadRequest("puzzle_date must be in YYYY-MM-DD format")
                /\ UNCHANGED <<scores, nextId>>
           ELSE /\ nextId < MaxPosted
                /\ LET score == Score(EffectiveUsername(None, a, n), data.guesses,
                                      data.time_seconds, Join(data.puzzle_date),
                                      nextId + 1)
                   IN  /\ scores' = StoreScore(scores, score)
                       /\ result' = [kind |-> "response", status |-> 201,
                                     success |-> TRUE, score |-> score]
                /\ nextId' = nextId + 1
        /\ UNCHANGED concvars

\* request.args.get("limit", default=5, type=int)
LimitArg(args) == IF args = <<>> THEN 5 ELSE args[1]

\* limit = min(max(1, limit), 10)
ClampLimit_noUpper(limit) == Max(1, limit)

ClampLimit(limit) == Min(Max(1, limit), 10)

\* len(puzzle_date) != 10 or puzzle_date[4] != "-" or puzzle_date[7] != "-"
BadDateFormat(cs) == Len(cs) # 10 \/ cs[5] # "-" \/ cs[8] # "-"

\* GET /api/leaderboard/<puzzle_date>
HttpGetLeaderboard ==
    \E path \in HttpPaths, args \in HttpLimitArgs :
        /\ op' = [name |-> "http_get_leaderboard", puzzle_date |-> Join(path),
                  args |-> args]
        /\ prev' = scores
        /\ result' =
               IF BadDateFormat(path)
               THEN BadRequest("Invalid date format. Use YYYY-MM-DD")
               ELSE [kind |-> "response", status |-> 200, success |-> TRUE,
                     puzzle_date |-> Join(path),
                     leaderboard |-> get_leaderboard(scores, Join(path),
                                                     ClampLimit(LimitArg(args)))]
        /\ UNCHANGED <<scores, nextId>>
        /\ UNCHANGED concvars

HttpNext == HttpSubmitScore \/ HttpGetLeaderboard

HttpSpec == Init /\ [][HttpNext]_vars

\* ------------------------------------------------------------------------
\* The calls of several request threads, interleaved (ConcSpec).
\* The service takes no lock; a thread may be preempted between any two
\* accesses of self._scores.  A thread's steps are the accesses of the
\* shared dictionary and of the lists in it; what it does to its own locals
\* is folded into the step before.
\* ------------------------------------------------------------------------

LiveRef(d) == [kind |-> "live", date |-> d]

OrphanRef == [kind |-> "orphan"]

EmptyRef == [kind |-> "empty"]

\* The threads holding the list object now stored under d.
Holders(d) == {u \in Threads : threads[u].ref = LiveRef(d)}

\* The list objects under the keys D leave the dictionary: those a thread
\* still refers to live on outside it.
Detached(D) ==
    {[holders |-> Holders(d), val |-> scores[d]] :
        d \in {k \in D \cap DOMAIN scores : Holders(k) # {}}}

AfterDetach(r, D) ==
    IF r.ref.kind = "live" /\ r.ref.date \in (D \cap DOMAIN scores)
    THEN [r EXCEPT !.ref = OrphanRef]
    ELSE r

\* The list thread t refers to.
OrphanOf(t) == CHOOSE o \in orphans : t \in o.holders

Deref(t) ==
    IF threads[t].ref.kind = "live" THEN scores[threads[t].ref.date]
    ELSE IF threads[t].ref.kind = "orphan" THEN OrphanOf(t).val
    ELSE <<>>

\* Thread t drops its reference, the list having become val.
Release(t, val) ==
    IF threads[t].ref.kind = "orphan"
    THEN LET o == OrphanOf(t)
             rest == o.holders \ {t}
         IN  (orphans \ {o}) \cup
                 (IF rest = {} THEN {} ELSE {[holders |-> rest, val |-> val]})
    ELSE orphans

\* submit_score, lines 144-158: validate, generate the username, build the Score
CallSubmit(t) ==
    \E guesses \in ConcGuesses, time_seconds \in ConcTimes, puzzle_date \in Dates,
       a \in AdjectiveDraws, n \in NounDraws :
        LET call == [name |-> "submit_score", guesses |-> guesses,
                     time_seconds |-> time_seconds, puzzle_date |-> puzzle_date,
                     username |-> None]
        IN  /\ threads[t].pc = "idle"
            /\ IF ~ValidGuesses(guesses)
               THEN /\ threads' = [threads EXCEPT ![t] =
                           [IdleThread EXCEPT !.call = call,
                               !.out = [kind |-> "raise", exc |-> "ValueError"]]]
                    /\ UNCHANGED nextId
               ELSE /\ nextId < MaxScores
                    /\ threads' = [threads EXCEPT ![t] =
                           [IdleThread EXCEPT !.pc = "check", !.call = call,
                               !.score = Score(EffectiveUsername(None, a, n), guesses,
                                               time_seconds, puzzle_date, nextId + 1)]]
                    /\ nextId' = nextId + 1
            /\ UNCHANGED <<scores, orphans, hist, seqvars>>

\* line 161: if puzzle_date not in self._scores
SubmitCheck(t) ==
    /\ threads[t].pc = "check"
    /\ threads' = [threads EXCEPT ![t].pc =
           IF threads[t].score.puzzle_date \notin DOMAIN scores
           THEN "create" ELSE "lookup"]
    /\ UNCHANGED <<scores, nextId, orphans, hist, seqvars>>

\* line 162: self._scores[puzzle_date] = []
SubmitCreate(t) ==
    LET d == threads[t].score.puzzle_date
    IN  /\ threads[t].pc = "create"
        /\ scores' = [k \in DOMAIN scores \cup {d} |->
                         IF k = d THEN <<>> ELSE scores[k]]
        /\ orphans' = orphans \cup Detached({d})
        /\ threads' = [u \in Threads |->
               IF u = t THEN [threads[t] EXCEPT !.pc = "lookup"]
               ELSE AfterDetach(threads[u], {d})]
        /\ UNCHANGED <<nextId, hist, seqvars>>

\* line 165, the subscript: self._scores[puzzle_date]
SubmitLookup(t) ==
    LET d == threads[t].score.puzzle_date
    IN  /\ threads[t].pc = "lookup"
        /\ threads' = [threads EXCEPT ![t] =
               IF d \in DOMAIN scores
               THEN [@ EXCEPT !.pc = "append", !.ref = LiveRef(d)]
               ELSE [@ EXCEPT !.pc = "idle", !.score = NoScore,
                        !.out = [kind |-> "raise", exc |-> "KeyError"]]]
        /\ UNCHANGED <<scores, nextId, orphans, hist, seqvars>>

\* line 165, .append(score), and line 167, return score
SubmitAppend(t) ==
    LET score == threads[t].score
        val == Append(Deref(t), score)
    IN  /\ threads[t].pc = "append"
        /\ IF threads[t].ref.kind = "live"
           THEN scores' = [scores EXCEPT ![threads[t].ref.date] = val]
           ELSE UNCHANGED scores
        /\ orphans' = Release(t, val)
        /\ threads' = [threads EXCEPT ![t] =
               [@ EXCEPT !.pc = "idle", !.score = NoScore, !.ref = NoRef,
                         !.out = [kind |-> "score", value |-> score]]]
        /\ hist' = [hist EXCEPT !.returned = @ \cup {score}]
        /\ UNCHANGED <<nextId, seqvars>>

\* clear_scores, lines 253-256: one dictionary operation
CallClear(t) ==
    \E puzzle_date \in ClearArgs :
        LET D == IF Truthy(puzzle_date) THEN {puzzle_date} ELSE DOMAIN scores
        IN  /\ threads[t].pc = "idle"
            /\ scores' = clear_scores(scores, puzzle_date)
            /\ orphans' = orphans \cup Detached(D)
            /\ threads' = [u \in Threads |->
                   IF u = t
                   THEN [IdleThread EXCEPT
                            !.call = [name |-> "clear_scores",
                                      puzzle_date |-> puzzle_date]]
                   ELSE AfterDetach(threads[u], D)]
            /\ hist' = [hist EXCEPT !.cleared = TRUE]
            /\ UNCHANGED <<nextId, seqvars>>

\* get_leaderboard, line 194: scores = self._scores.get(puzzle_date, [])
CallGet(t) ==
    \E puzzle_date \in Dates, limit \in ConcLimits :
        /\ threads[t].pc = "idle"
        /\ threads' = [threads EXCEPT ![t] =
               [IdleThread EXCEPT
                   !.pc = "sort",
                   !.call = [name |-> "get_leaderboard",
                             puzzle_date |-> puzzle_date, limit |-> limit],
                   !.ref = IF puzzle_date \in DOMAIN scores
                           THEN LiveRef(puzzle_date) ELSE EmptyRef]]
        /\ UNCHANGED <<scores, nextId, orphans, hist, seqvars>>

\* lines 197-214: sorted() copies the list it was given; the rest is local
GetSort(t) ==
    /\ threads[t].pc = "sort"
    /\ threads' = [threads EXCEPT ![t] =
           [@ EXCEPT !.pc = "idle", !.ref = NoRef,
                     !.out = [kind |-> "entries",
                              value |-> Entries(SliceTo(sorted(Deref(t)),
                                                        threads[t].call.limit))]]]
    /\ orphans' = Release(t, Deref(t))
    /\ UNCHANGED <<scores, nextId, hist, seqvars>>

\* get_all_dates, line 241: list(self._scores.keys())
CallGetAllDates(t) ==
    /\ threads[t].pc = "idle"
    /\ threads' = [threads EXCEPT ![t] =
           [IdleThread EXCEPT !.call = [name |-> "get_all_dates"],
                              !.out = [kind |-> "dates",
                                       value |-> get_all_dates(scores)]]]
    /\ UNCHANGED <<scores, nextId, orphans, hist, seqvars>>

ConcNext ==
    \E t \in Threads :
        \/ CallSubmit(t)
        \/ SubmitCheck(t)
        \/ SubmitCreate(t)
        \/ SubmitLookup(t)
        \/ SubmitAppend(t)
        \/ CallClear(t)
        \/ CallGet(t)
        \/ GetSort(t)
        \/ CallGetAllDates(t)

ConcSpec == Init /\ [][ConcNext]_vars

\* ------------------------------------------------------------------------
\* Properties of the calls made one at a time (Spec)
\* ------------------------------------------------------------------------

IsSubmit == op.name = "submit_score"

IsGet == op.name = "get_leaderboard"

Submitted == IsSubmit /\ result.kind = "score"

\* The records the last call's day holds now, in stored order.
Day == ScoresGet(scores, op.puzzle_date)

\* a is strictly better than b: fewer guesses, then less time.
Better(a, b) ==
    \/ a.guesses < b.guesses
    \/ a.guesses = b.guesses /\ a.time_seconds < b.time_seconds

SameKey(a, b) == a.guesses = b.guesses /\ a.time_seconds = b.time_seconds

\* C1: a submit_score call with guesses < 1 or guesses > 6 raises ValueError
\* and leaves the whole store (keys and every day's list) as it was; no
\* empty list appears for its puzzle_date.
C1_InvalidGuessesRejected ==
    (IsSubmit /\ (op.guesses < 1 \/ op.guesses > 6)) =>
        /\ result = [kind |-> "raise", exc |-> "ValueError"]
        /\ scores = prev
        /\ DOMAIN scores = DOMAIN prev

C1_Witness ==
    /\ IsSubmit /\ op.guesses > 6
    /\ result.kind = "raise"
    /\ op.puzzle_date \notin DOMAIN scores
    /\ DOMAIN scores # {}

\* C2: every stored record has 1 <= guesses <= 6 and time_seconds >= 0,
\* whatever integer arguments submit_score and clear_scores were called with.
C2_StoredRecordsInRange ==
    \A d \in DOMAIN scores : \A i \in 1 .. Len(scores[d]) :
        /\ 1 <= scores[d][i].guesses /\ scores[d][i].guesses <= 6
        /\ scores[d][i].time_seconds >= 0

\* C5: a successful submit_score appends exactly one record, the one it
\* returns, carrying the arguments, at the end of its day's list (created on
\* first submission) and leaves every other record and day as it was.
C5_SubmitAdditive ==
    Submitted =>
        LET d == op.puzzle_date
            old == ScoresGet(prev, d)
        IN  /\ DOMAIN scores = DOMAIN prev \cup {d}
            /\ Len(scores[d]) = Len(old) + 1
            /\ scores[d][Len(old) + 1] = result.value
            /\ \A i \in 1 .. Len(old) : scores[d][i] = old[i]
            /\ \A k \in DOMAIN prev \ {d} : scores[k] = prev[k]
            /\ result.value.guesses = op.guesses
            /\ result.value.time_seconds = op.time_seconds
            /\ result.value.puzzle_date = op.puzzle_date

C5_Witness ==
    /\ Submitted
    /\ op.puzzle_date \in DOMAIN prev
    /\ Len(scores[op.puzzle_date]) = 2
    /\ scores[op.puzzle_date][1] # scores[op.puzzle_date][2]

\* C6: in a get_leaderboard result an entry of smaller rank has fewer
\* guesses, or equal guesses and no more time; and every record of the day
\* that is strictly better than a returned entry is itself returned.
C6_OrderingLaw ==
    IsGet =>
        LET r == result.value
        IN  /\ \A i, j \in 1 .. Len(r) :
                r[i].rank < r[j].rank =>
                    \/ r[i].guesses < r[j].guesses
                    \/ /\ r[i].guesses = r[j].guesses
                       /\ r[i].time_seconds <= r[j].time_seconds
            /\ \A j \in 1 .. Len(r) :
                Cardinality({i \in 1 .. Len(Day) : Better(Day[i], r[j])})
                    = Cardinality({i \in 1 .. Len(r) : Better(r[i], r[j])})

C6_Witness ==
    /\ IsGet
    /\ Len(Day) = 2
    /\ Better(Day[2], Day[1])
    /\ Len(result.value) = 1

\* C7 as claimed: for every limit the number of entries returned is
\* min(limit, number of records stored for the day).
C7_LimitLawAnyLimit ==
    IsGet => Len(result.value) = Min(op.limit, Len(Day))

\* C7 amended: for every limit >= 0 the number of entries returned is
\* min(limit, number of records stored for the day).
C7_LimitLaw ==
    (IsGet /\ op.limit >= 0) => Len(result.value) = Min(op.limit, Len(Day))

C7_Witness ==
    /\ IsGet
    /\ op.limit = 1
    /\ Len(Day) = 2
    /\ Len(result.value) = 1

\* C8: the i-th entry of a get_leaderboard result has rank i, so the ranks
\* are 1..n without gap or repeat, n the length of the truncated result.
C8_RanksArePositions ==
    IsGet => \A i \in 1 .. Len(result.value) : result.value[i].rank = i

C8_Witness ==
    /\ IsGet
    /\ Len(result.value) = 2
    /\ SameKey(result.value[1], result.value[2])

\* The returned entries of one (guesses, time_seconds) key are the first
\* records of that key in submission order.
StableResult ==
    IsGet =>
        \A j \in 1 .. Len(result.value) :
            LET e == result.value[j]
                tiedIn == SelectSeq(Day, LAMBDA s : SameKey(s, e))
                tiedOut == SelectSeq(result.value, LAMBDA x : SameKey(x, e))
            IN  /\ Len(tiedOut) <= Len(tiedIn)
                /\ \A i \in 1 .. Len(tiedOut) :
                       tiedOut[i].username = tiedIn[i].username

\* C9: a get_leaderboard call repeated with the same day and limit, nothing
\* else in between, returns the same entries; and records tied on
\* (guesses, time_seconds) come out in submission order, the earlier ones
\* kept when the limit cuts through the tie.
C9_DeterministicStable ==
    [][ /\ StableResult'
        /\ (IsGet /\ op' = op) => result' = result ]_vars

C9_Witness ==
    /\ IsGet
    /\ Len(Day) = 2
    /\ SameKey(Day[1], Day[2])
    /\ Day[1].username # Day[2].username
    /\ Len(result.value) = 1
    /\ result.value[1].username = Day[1].username

\* C10: a successful submit_score with username None or "" stores and
\* returns a record whose username is an adjective of ADJECTIVES followed
\* directly by a noun of NOUNS.
C10_GeneratedUsername ==
    (Submitted /\ op.username \in {None, ""}) =>
        /\ \E a \in 1 .. Len(ADJECTIVES), n \in 1 .. Len(NOUNS) :
               result.value.username = ADJECTIVES[a] \o NOUNS[n]
        /\ result.value.username # ""
        /\ result.value \in Range(Day)

IsClear == op.name = "clear_scores"

\* C11: clear_scores with a day removes that day's key and records and
\* leaves every other day as it was; clear_scores() (None) empties the
\* store; neither raises, and clearing a day that holds nothing (so also
\* clearing a second time) leaves the store as it was.
C11_ClearFrame ==
    IsClear =>
        /\ result = [kind |-> "none"]
        /\ (op.puzzle_date # None /\ op.puzzle_date # "") =>
               /\ DOMAIN scores = DOMAIN prev \ {op.puzzle_date}
               /\ \A k \in DOMAIN scores : scores[k] = prev[k]
               /\ op.puzzle_date \notin DOMAIN prev => scores = prev
        /\ op.puzzle_date = None =>
               /\ DOMAIN scores = {}
               /\ DOMAIN prev = {} => scores = prev

C11_Witness ==
    /\ IsClear
    /\ op.puzzle_date \in DOMAIN prev
    /\ prev[op.puzzle_date] # <<>>
    /\ DOMAIN scores # {}
    /\ result.kind = "none"

\* C13: get_leaderboard leaves the store as it was (same keys, same lists
\* in the same order); for a day without submissions it returns no entry
\* and creates no key for that day.
C13_GetReadOnly ==
    IsGet =>
        /\ scores = prev
        /\ DOMAIN scores = DOMAIN prev
        /\ op.puzzle_date \notin DOMAIN prev =>
               /\ result = [kind |-> "entries", value |-> <<>>]
               /\ op.puzzle_date \notin DOMAIN scores

C13_Witness ==
    /\ IsGet
    /\ op.puzzle_date \notin DOMAIN scores
    /\ DOMAIN scores # {}
    /\ op.limit >= 1
    /\ result.value = <<>>

\* ------------------------------------------------------------------------
\* Properties of the HTTP handlers (HttpSpec)
\* ------------------------------------------------------------------------

Served == op.name = "http_get_leaderboard" /\ result.status = 200

\* The limit the request asks for, 5 when it names none.
Requested == IF op.args = <<>> THEN 5 ELSE op.args[1]

\* C12: a served leaderboard request holds exactly min(c, n) entries, c the
\* requested limit (5 when missing) brought into 1..10 and n the number of
\* records of the day: never more than 10, at least 1 when the day has a
\* record.
C12_HttpLimitClamped ==
    Served =>
        LET c == IF Requested < 1 THEN 1 ELSE IF Requested > 10 THEN 10 ELSE Requested
            n == Len(Day)
            len == Len(result.leaderboard)
        IN  /\ len = Min(c, n)
            /\ len <= 10
            /\ n >= 1 => len >= 1

C12_Witness ==
    /\ Served
    /\ Requested = 11
    /\ Len(Day) = 11
    /\ Len(result.leaderboard) = 10

\* ------------------------------------------------------------------------
\* Properties of the interleaved calls (ConcSpec)
\* ------------------------------------------------------------------------

Stored(score) ==
    /\ score.puzzle_date \in DOMAIN scores
    /\ score \in Range(scores[score.puzzle_date])

\* C3: as long as no clear has run, every record a submit_score call has
\* returned is in its day's list: with N calls returned for a day and no
\* clear, the day holds all N records.
C3_NoSubmissionLost ==
    ~hist.cleared => \A score \in hist.returned : Stored(score)

\* C4: a submit_score call with guesses in 1..6 ends only by returning its
\* record, never by raising, whatever runs beside it.
C4_ValidSubmitSucceeds ==
    \A t \in Threads :
        ( /\ threads[t].pc = "idle"
          /\ threads[t].call.name = "submit_score"
          /\ 1 <= threads[t].call.guesses /\ threads[t].call.guesses <= 6 )
        => threads[t].out.kind = "score"

\* C14: whenever a caller can call it, get_all_dates returns exactly the
\* dates that hold at least one record (no date with an empty list, none
\* with records missing), and every record is stored under its own
\* puzzle_date.
C14_DatesHaveRecords ==
    (\E t \in Threads : threads[t].pc = "idle") =>
        /\ get_all_dates(scores) = {d \in DOMAIN scores : Len(scores[d]) >= 1}
        /\ \A d \in DOMAIN scores : \A i \in 1 .. Len(scores[d]) :
               scores[d][i].puzzle_date = d

====
